---- MODULE Spec2Model ----
(***************************************************************************)
(* A model of the YKOATH protocol engine of ykoath-rs: the TLV codec       *)
(* (push / pop), the chained transmission loop of YubiKey::transmit with   *)
(* its status-word mapping, the command builders SELECT, CALCULATE and     *)
(* CALCULATE ALL, and the lazy bulk decoder returned by calculate_all.     *)
(* Bytes are the naturals 0..255; a Vec<u8> or a slice is a sequence.      *)
(***************************************************************************)
EXTENDS Integers, Sequences, FiniteSets, TLC

VARIABLES
    pc,        \* where the caller is: "idle", "awaiting", "returned", "iterating", ...
    op,        \* the operation in progress
    args,      \* its arguments
    buf,       \* the caller-supplied Vec<u8>
    mid,       \* transmit's `mid`: the length of the assembled command
    sent,      \* the commands handed to the transport in this exchange, in order
    frames,    \* the replies of the transport in this exchange, in order
    result,    \* what transmit returned
    response,  \* the cursor (remaining slice) a decoder reads from
    decoded,   \* what the operation returned to its caller
    yielded,   \* the items Some(..) the bulk decoder has yielded, in order
    ended,     \* the bulk decoder has returned None
    tick,      \* flips on every pull of the bulk decoder
    wire,      \* what the device holds for the decoders: the pieces of its payload
    last       \* the latest call of a decode primitive: its input and output

vars == <<pc, op, args, buf, mid, sent, frames, result, response, decoded,
          yielded, ended, tick, wire, last>>

--------------------------------------------------------------------------
(* Bounds of the model. *)

\* at most this many frames are exchanged in one transmit
MaxFrames == 3
\* short TLV values have at most this many bytes
MaxLen == 2
\* the history of yielded items keeps at most this many items
MaxPulls == 4
\* a bulk payload is built from at most this many pieces
MaxPieces == 2

--------------------------------------------------------------------------
(* Protocol constants. *)

TagName == 113        \* 0x71
TagChallenge == 116   \* 0x74
TagResponse == 117    \* 0x75, full response
TagTruncated == 118   \* 0x76, truncated response
TagHotp == 119        \* 0x77
TagTouch == 124       \* 0x7c
TagVersion == 121     \* 0x79
TagAlgorithm == 123   \* 0x7b
SwSuccess == 36864    \* 0x9000
SwMoreLo == 24832     \* 0x6100
SwMoreHi == 25087     \* 0x61ff
SwNoSpace == 27268    \* 0x6a84
SwNoSuchObject == 27012   \* 0x6984
SwAuthRequired == 27010   \* 0x6982
SwWrongSyntax == 27264    \* 0x6a80
SwGenericError == 25985   \* 0x6581
InsSelect == 164      \* 0xa4
InsCalculate == 162   \* 0xa2
InsCalculateAll == 164    \* 0xa4
InsSendRemaining == 165   \* 0xa5
ResponseBytes == 4    \* size_of::<u32>()

Byte == 0..255

--------------------------------------------------------------------------
(* Result<T, Error>, with a panic as a third outcome. *)

Ok(v) == [kind |-> "Ok", err |-> "", arg |-> 0, val |-> v]

Err(e, a) == [kind |-> "Err", err |-> e, arg |-> a, val |-> <<>>]

Panic == [kind |-> "Panic", err |-> "", arg |-> 0, val |-> <<>>]

InsufficientData == Err("InsufficientData", 0)

UnexpectedValue(b) == Err("UnexpectedValue", b)

None == [kind |-> "None", err |-> "", arg |-> 0, val |-> <<>>]

--------------------------------------------------------------------------
(* Slices. *)

\* &s[n..]: the suffix after the first n elements (the caller checks n <= len)
SliceFrom(s, n) == SubSeq(s, n + 1, Len(s))

\* s.get(lo..hi) is Some
RangeOk(s, lo, hi) == lo <= hi /\ hi <= Len(s)

\* the elements lo..hi of s, 0-based and half open
Slice(s, lo, hi) == SubSeq(s, lo + 1, hi)

Front(s) == SubSeq(s, 1, Len(s) - 1)

IsPrefix(p, s) == Len(p) <= Len(s) /\ SubSeq(s, 1, Len(p)) = p

IsSuffix(p, s) == Len(p) <= Len(s) /\ SubSeq(s, Len(s) - Len(p) + 1, Len(s)) = p

RECURSIVE Flatten(_)
Flatten(ss) == IF ss = <<>> THEN <<>> ELSE Head(ss) \o Flatten(Tail(ss))

\* all sequences over S of length at most n
SeqsUpTo(S, n) == UNION {[1..k -> S] : k \in 0..n}

\* n copies of b
Fill(b, n) == [i \in 1..n |-> b]

--------------------------------------------------------------------------
(* The TLV codec. *)

\* YubiKey::push that writes the length byte before the tag
Push_LengthFirst(b, tag, data) == b \o <<Len(data) % 256, tag>> \o data

\* YubiKey::push: the tag, the length as one byte (`as u8` keeps the low
\* eight bits), the value
Push(b, tag, data) == b \o <<tag, Len(data) % 256>> \o data

\* YubiKey::pop without the range check on the value
Pop_NoRangeCheck(b, tags) ==
    IF b = <<>> THEN [res |-> InsufficientData, rest |-> b]
    ELSE IF b[1] \in tags
         THEN IF Len(b) < 2 THEN [res |-> InsufficientData, rest |-> b]
              ELSE IF 2 + b[2] > Len(b) THEN [res |-> Panic, rest |-> b]
              ELSE [res |-> Ok([tag |-> b[1], data |-> Slice(b, 2, 2 + b[2])]),
                    rest |-> SliceFrom(b, 2 + b[2])]
         ELSE [res |-> UnexpectedValue(b[1]), rest |-> b]

\* YubiKey::pop that moves the cursor past an unexpected tag
Pop_SkipsUnexpected(b, tags) ==
    IF b = <<>> THEN [res |-> InsufficientData, rest |-> b]
    ELSE IF b[1] \in tags
         THEN IF Len(b) < 2 \/ ~RangeOk(b, 2, 2 + b[2])
              THEN [res |-> InsufficientData, rest |-> b]
              ELSE [res |-> Ok([tag |-> b[1], data |-> Slice(b, 2, 2 + b[2])]),
                    rest |-> SliceFrom(b, 2 + b[2])]
         ELSE [res |-> UnexpectedValue(b[1]), rest |-> SliceFrom(b, 1)]

\* YubiKey::pop that leaves the cursor one byte short of the end of the value
Pop_CursorShort(b, tags) ==
    IF b = <<>> THEN [res |-> InsufficientData, rest |-> b]
    ELSE IF b[1] \in tags
         THEN IF Len(b) < 2 \/ ~RangeOk(b, 2, 2 + b[2])
              THEN [res |-> InsufficientData, rest |-> b]
              ELSE [res |-> Ok([tag |-> b[1], data |-> Slice(b, 2, 2 + b[2])]),
                    rest |-> SliceFrom(b, 1 + b[2])]
         ELSE [res |-> UnexpectedValue(b[1]), rest |-> b]

\* YubiKey::pop: the cursor b is read and, on success only, advanced; res is
\* the returned Result and rest the cursor after the call
Pop(b, tags) ==
    IF b = <<>> THEN [res |-> InsufficientData, rest |-> b]        \* buf.first()
    ELSE IF b[1] \in tags
         THEN IF Len(b) < 2                                        \* buf.get(1)
              THEN [res |-> InsufficientData, rest |-> b]
              ELSE IF ~RangeOk(b, 2, 2 + b[2])                     \* buf.get(2..2 + len)
              THEN [res |-> InsufficientData, rest |-> b]
              ELSE [res |-> Ok([tag |-> b[1], data |-> Slice(b, 2, 2 + b[2])]),
                    rest |-> SliceFrom(b, 2 + b[2])]
         ELSE [res |-> UnexpectedValue(b[1]), rest |-> b]

--------------------------------------------------------------------------
(* The status word and the transmission loop. *)

\* u16::from_le_bytes([x0, x1])
FromLeBytes(x0, x1) == x0 + 256 * x1

\* u32::from_be_bytes of four bytes
FromBeBytes(s) == ((s[1] * 256 + s[2]) * 256 + s[3]) * 256 + s[4]

Status(k) == [kind |-> k, err |-> "", arg |-> 0, val |-> <<>>]

\* the match on the status word with the continuation range one code short
MapStatus_ShortRange(code) ==
    IF code = SwSuccess THEN Status("Success")
    ELSE IF code >= SwMoreLo /\ code < SwMoreHi THEN Status("Continue")
    ELSE IF code = SwNoSpace THEN Err("NoSpace", 0)
    ELSE IF code = SwNoSuchObject THEN Err("NoSuchObject", 0)
    ELSE IF code = SwAuthRequired THEN Err("AuthRequired", 0)
    ELSE IF code = SwWrongSyntax THEN Err("WrongSyntax", 0)
    ELSE IF code = SwGenericError THEN Err("GenericError", 0)
    ELSE Err("UnknownCode", code)

\* the match on the status word that goes on after an unknown code
MapStatus_UnknownContinues(code) ==
    IF code = SwSuccess THEN Status("Success")
    ELSE IF code >= SwMoreLo /\ code <= SwMoreHi THEN Status("Continue")
    ELSE IF code = SwNoSpace THEN Err("NoSpace", 0)
    ELSE IF code = SwNoSuchObject THEN Err("NoSuchObject", 0)
    ELSE IF code = SwAuthRequired THEN Err("AuthRequired", 0)
    ELSE IF code = SwWrongSyntax THEN Err("WrongSyntax", 0)
    ELSE IF code = SwGenericError THEN Err("GenericError", 0)
    ELSE Status("Continue")

\* the match on the status word in transmit
MapStatus(code) ==
    IF code = SwSuccess THEN Status("Success")
    ELSE IF code >= SwMoreLo /\ code <= SwMoreHi THEN Status("Continue")
    ELSE IF code = SwNoSpace THEN Err("NoSpace", 0)
    ELSE IF code = SwNoSuchObject THEN Err("NoSuchObject", 0)
    ELSE IF code = SwAuthRequired THEN Err("AuthRequired", 0)
    ELSE IF code = SwWrongSyntax THEN Err("WrongSyntax", 0)
    ELSE IF code = SwGenericError THEN Err("GenericError", 0)
    ELSE Err("UnknownCode", code)

\* the Lc byte: buf[4] = (buf.len() - 5) as u8, when there is a header
LcFixup(b) == IF Len(b) >= 5 THEN [b EXCEPT ![5] = (Len(b) - 5) % 256] ELSE b

\* SEND REMAINING INSTRUCTION
Continuation == <<0, InsSendRemaining, 0, 0>>

\* the command of one loop iteration: the assembled command while nothing has
\* been appended to it, the continuation instruction otherwise
NextCommand(b, m) == IF m = Len(b) THEN SubSeq(b, 1, m) ELSE Continuation

\* the loop body after the transport answered r, with the two status bytes
\* left in the returned payload
TransmitReply_KeepsStatus(b, m, r) ==
    LET b1 == b \o r IN
    IF Len(b1) < 2 THEN [buf |-> <<>>, out |-> InsufficientData]
    ELSE LET st == MapStatus(FromLeBytes(b1[Len(b1)], b1[Len(b1) - 1])) IN
         IF st.kind = "Success"
         THEN [buf |-> b1, out |-> IF m > Len(b1) THEN Panic ELSE Ok(SliceFrom(b1, m))]
         ELSE [buf |-> Front(Front(b1)), out |-> st]

\* the loop body of transmit after the transport answered r: the reply is
\* appended to buf, the status word is popped off its end and matched.
\* out is Ok(payload), Continue (next iteration), an error, or a panic.
TransmitReply(b, m, r) ==
    LET b1 == b \o r IN                                \* resize, transmit, truncate
    IF b1 = <<>> THEN [buf |-> b1, out |-> InsufficientData]
    ELSE LET x0 == b1[Len(b1)]                         \* first buf.pop()
             b2 == Front(b1)
         IN  IF b2 = <<>> THEN [buf |-> b2, out |-> InsufficientData]
             ELSE LET x1 == b2[Len(b2)]                \* second buf.pop()
                      b3 == Front(b2)
                      st == MapStatus(FromLeBytes(x0, x1))
                  IN  IF st.kind = "Success"
                      THEN [buf |-> b3,
                            out |-> IF m > Len(b3) THEN Panic      \* &buf[mid..]
                                    ELSE Ok(SliceFrom(b3, m))]
                      ELSE [buf |-> b3, out |-> st]

--------------------------------------------------------------------------
(* The command builders and the decoders of their responses. *)

P2(truncate) == IF truncate THEN 1 ELSE 0

\* a response tag that does not look at the truncate flag
ResponseTag_Fixed(truncate) == TagTruncated

\* the response tag the caller's truncate flag selects
ResponseTag(truncate) == IF truncate THEN TagTruncated ELSE TagResponse

\* the application identifier SELECT sends
Aid == <<160, 0, 0, 5, 39, 33, 1>>

\* select: buf.clear(), the header, the Lc placeholder, the application id
SelectCommand == <<0, InsSelect, 4, 0>> \o <<0>> \o Aid

\* calculate: buf.clear(), the header, the Lc placeholder, the two TLVs
CalculateCommand(truncate, name, challenge) ==
    Push(Push(<<0, InsCalculate, 0, P2(truncate)>> \o <<0>>, TagName, name),
         TagChallenge, challenge)

\* calculate_all: buf.clear(), the header, the Lc placeholder, the challenge TLV
CalculateAllCommand(truncate, challenge) ==
    Push(<<0, InsCalculateAll, 0, P2(truncate)>> \o <<0>>, TagChallenge, challenge)

\* the match on the algorithm value that takes every single byte
AlgorithmOf_AnySingleByte(algorithm) ==
    IF algorithm = <<2>> THEN Ok("HmacSha256")
    ELSE IF algorithm = <<3>> THEN Ok("HmacSha512")
    ELSE IF Len(algorithm) = 1 THEN Ok("HmacSha1")
    ELSE UnexpectedValue(Len(algorithm) % 256)

\* the match on the algorithm value in select
AlgorithmOf(algorithm) ==
    IF algorithm = <<1>> THEN Ok("HmacSha1")
    ELSE IF algorithm = <<2>> THEN Ok("HmacSha256")
    ELSE IF algorithm = <<3>> THEN Ok("HmacSha512")
    ELSE IF Len(algorithm) = 1 THEN UnexpectedValue(algorithm[1])
    ELSE UnexpectedValue(Len(algorithm) % 256)

NoInner == [present |-> FALSE, challenge |-> <<>>, algorithm |-> ""]

\* select after transmit: version, name and, if bytes remain, challenge and
\* algorithm
SelectDecode(payload) ==
    LET p1 == Pop(payload, {TagVersion}) IN
    IF p1.res.kind # "Ok" THEN p1.res
    ELSE LET p2 == Pop(p1.rest, {TagName}) IN
    IF p2.res.kind # "Ok" THEN p2.res
    ELSE IF p2.rest = <<>>
    THEN Ok([version |-> p1.res.val.data, name |-> p2.res.val.data, inner |-> NoInner])
    ELSE LET p3 == Pop(p2.rest, {TagChallenge}) IN
    IF p3.res.kind # "Ok" THEN p3.res
    ELSE LET p4 == Pop(p3.rest, {TagAlgorithm}) IN
    IF p4.res.kind # "Ok" THEN p4.res
    ELSE LET alg == AlgorithmOf(p4.res.val.data) IN
    IF alg.kind # "Ok" THEN alg
    ELSE Ok([version |-> p1.res.val.data, name |-> p2.res.val.data,
             inner |-> [present |-> TRUE, challenge |-> p3.res.val.data,
                        algorithm |-> alg.val]])

\* impl TryFrom<&[u8]> for calculate::Response
ResponseTryFrom(value) ==
    IF value = <<>> THEN InsufficientData                         \* value.first()
    ELSE IF ~RangeOk(value, 1, 1 + ResponseBytes) THEN InsufficientData
    ELSE Ok([digits |-> value[1],
             response |-> FromBeBytes(Slice(value, 1, 1 + ResponseBytes))])

\* calculate after transmit: one TLV with the response tag, then try_into
CalculateDecode(payload, truncate) ==
    LET p == Pop(payload, {ResponseTag(truncate)}) IN
    IF p.res.kind # "Ok" THEN p.res ELSE ResponseTryFrom(p.res.val.data)

\* calculate_all::Inner
InnerResponse(digits, bytes) == [variant |-> "Response", digits |-> digits, response |-> bytes]

InnerHotp == [variant |-> "Hotp", digits |-> 0, response |-> <<>>]

InnerTouch == [variant |-> "Touch", digits |-> 0, response |-> <<>>]

\* the match on the payload tag that takes the touch marker for HOTP
InnerOf_TouchAsHotp(tag, data) ==
    IF tag \in {TagResponse, TagTruncated}
    THEN IF data = <<>> THEN InsufficientData
         ELSE Ok(InnerResponse(data[1], SliceFrom(data, 1)))
    ELSE IF tag = TagHotp \/ tag = TagTouch THEN Ok(InnerHotp)
    ELSE UnexpectedValue(tag)

\* the match on the payload tag in the closure of calculate_all
InnerOf(tag, data) ==
    IF tag \in {TagResponse, TagTruncated}
    THEN IF data = <<>> THEN InsufficientData                     \* response.first()
         ELSE Ok(InnerResponse(data[1], SliceFrom(data, 1)))
    ELSE IF tag = TagHotp THEN Ok(InnerHotp)
    ELSE IF tag = TagTouch THEN Ok(InnerTouch)
    ELSE UnexpectedValue(tag)

\* one pull that takes any payload tag for the name's entry without a look
PullItem_FirstVariantOnly(cursor, truncate) ==
    IF cursor = <<>> THEN [item |-> None, rest |-> cursor]
    ELSE LET p1 == Pop(cursor, {TagName}) IN
    IF p1.res.kind # "Ok" THEN [item |-> p1.res, rest |-> p1.rest]
    ELSE LET p2 == Pop(p1.rest, {ResponseTag(truncate), TagHotp, TagTouch}) IN
    IF p2.res.kind # "Ok" THEN [item |-> p2.res, rest |-> p2.rest]
    ELSE [item |-> Ok([name |-> p1.res.val.data, inner |-> InnerHotp]), rest |-> p2.rest]

\* one pull that leaves the cursor at the payload entry it has decoded
PullItem_KeepsPayload(cursor, truncate) ==
    IF cursor = <<>> THEN [item |-> None, rest |-> cursor]
    ELSE LET p1 == Pop(cursor, {TagName}) IN
    IF p1.res.kind # "Ok" THEN [item |-> p1.res, rest |-> p1.rest]
    ELSE LET p2 == Pop(p1.rest, {ResponseTag(truncate), TagHotp, TagTouch}) IN
    IF p2.res.kind # "Ok" THEN [item |-> p2.res, rest |-> p2.rest]
    ELSE LET inner == InnerOf(p2.res.val.tag, p2.res.val.data) IN
    IF inner.kind # "Ok" THEN [item |-> inner, rest |-> p2.rest]
    ELSE [item |-> Ok([name |-> p1.res.val.data, inner |-> inner.val]), rest |-> p1.rest]

\* one call of the closure calculate_all hands to iter::from_fn: item is None
\* at the end of the sequence, otherwise the Result inside Some; rest is the
\* cursor after the call
PullItem(cursor, truncate) ==
    IF cursor = <<>> THEN [item |-> None, rest |-> cursor]        \* response.is_empty()
    ELSE LET p1 == Pop(cursor, {TagName}) IN
    IF p1.res.kind # "Ok" THEN [item |-> p1.res, rest |-> p1.rest]
    ELSE LET p2 == Pop(p1.rest, {ResponseTag(truncate), TagHotp, TagTouch}) IN
    IF p2.res.kind # "Ok" THEN [item |-> p2.res, rest |-> p2.rest]
    ELSE LET inner == InnerOf(p2.res.val.tag, p2.res.val.data) IN
    IF inner.kind # "Ok" THEN [item |-> inner, rest |-> p2.rest]
    ELSE [item |-> Ok([name |-> p1.res.val.data, inner |-> inner.val]), rest |-> p2.rest]

--------------------------------------------------------------------------
(* The caller, the transport and the exchange. *)

\* pcsc::MAX_BUFFER_SIZE, the room transmit adds for each reply
MaxBufferSize == 264

\* account names and challenges the caller passes
Names == {<<>>, <<65>>}

Challenges == {<<>>, <<1>>, <<144, 0>>, <<97, 0>>}

\* what the device may put before the status word of one frame
ReplyPayloads ==
    {<<>>, <<TagName, 1, 65>>, <<TagTruncated, 5, 6, 0, 0, 4, 210>>, <<TagHotp, 1, 6>>}

\* status words of a frame, as the two wire bytes: success, more data (two
\* low bytes), no space, and a code the table does not list
ReplyStatus == {<<144, 0>>, <<97, 0>>, <<97, 255>>, <<106, 132>>, <<98, 0>>}

\* replies too short to hold a status word
ShortReplies == {<<>>, <<144>>}

Replies == {p \o st : p \in ReplyPayloads, st \in ReplyStatus} \cup ShortReplies

\* the mark in `frames` of a transport call that failed
TransportError == <<-1>>

NoCall == [fn |-> "none", before |-> <<>>, tags |-> {}, out |-> None, after |-> <<>>]

Init ==
    /\ pc = "idle"
    /\ op = "none"
    /\ args = [truncate |-> FALSE, name |-> <<>>, challenge |-> <<>>]
    /\ buf = <<>>
    /\ mid = 0
    /\ sent = <<>>
    /\ frames = <<>>
    /\ result = None
    /\ response = <<>>
    /\ decoded = None
    /\ yielded = <<>>
    /\ ended = FALSE
    /\ tick = FALSE
    /\ wire = <<>>
    /\ last = NoCall

\* an operation that assembles its command after what the buffer holds
Begin_KeepsBuffer(o, a, cmd) ==
    /\ pc = "idle"
    /\ op' = o
    /\ args' = a
    /\ buf' = LcFixup(buf \o cmd)
    /\ mid' = Len(buf \o cmd)
    /\ sent' = <<NextCommand(LcFixup(buf \o cmd), Len(buf \o cmd))>>
    /\ frames' = <<>>
    /\ result' = None
    /\ response' = <<>>
    /\ decoded' = None
    /\ yielded' = <<>>
    /\ ended' = FALSE
    /\ tick' = FALSE
    /\ last' = NoCall
    /\ pc' = "awaiting"
    /\ UNCHANGED wire

\* an operation up to its first transport call: the command is assembled in
\* the cleared buffer, transmit fixes the Lc byte, takes mid and sends
Begin(o, a, cmd) ==
    /\ pc = "idle"
    /\ op' = o
    /\ args' = a
    /\ buf' = LcFixup(cmd)
    /\ mid' = Len(cmd)
    /\ sent' = <<NextCommand(LcFixup(cmd), Len(cmd))>>
    /\ frames' = <<>>
    /\ result' = None
    /\ response' = <<>>
    /\ decoded' = None
    /\ yielded' = <<>>
    /\ ended' = FALSE
    /\ tick' = FALSE
    /\ last' = NoCall
    /\ pc' = "awaiting"
    /\ UNCHANGED wire

Select ==
    Begin("select", [truncate |-> FALSE, name |-> <<>>, challenge |-> <<>>], SelectCommand)

Calculate ==
    \E t \in BOOLEAN, n \in Names, c \in Challenges :
        Begin("calculate", [truncate |-> t, name |-> n, challenge |-> c],
              CalculateCommand(t, n, c))

CalculateAll ==
    \E t \in BOOLEAN, c \in Challenges :
        Begin("calculate_all", [truncate |-> t, name |-> <<>>, challenge |-> c],
              CalculateAllCommand(t, c))

\* what the operation returns once transmit has returned r
Finish(r) ==
    IF r.kind # "Ok" THEN r
    ELSE IF op = "select" THEN SelectDecode(r.val)
    ELSE IF op = "calculate" THEN CalculateDecode(r.val, args.truncate)
    ELSE Ok(<<>>)

\* the transport answers the pending call with r and transmit runs up to its
\* next transport call or its return; the operation then decodes the payload
Reply(r) ==
    /\ pc = "awaiting"
    /\ Len(frames) < MaxFrames
    /\ LET t == TransmitReply(buf, mid, r) IN
        /\ frames' = Append(frames, r)
        /\ buf' = t.buf
        /\ IF t.out.kind = "Continue"
           THEN /\ sent' = Append(sent, NextCommand(t.buf, mid))
                /\ UNCHANGED <<pc, result, decoded, response>>
           ELSE /\ sent' = sent
                /\ result' = t.out
                /\ decoded' = Finish(t.out)
                /\ response' = IF t.out.kind = "Ok" /\ op = "calculate_all"
                               THEN t.out.val ELSE <<>>
                /\ pc' = IF t.out.kind = "Ok" /\ op = "calculate_all"
                         THEN "iterating" ELSE "returned"
    /\ UNCHANGED <<op, args, mid, yielded, ended, tick, wire, last>>

TransportReply == \E r \in Replies : Reply(r)

\* the pending transport call fails: `?` returns the error at once, with the
\* room for the reply still in the buffer
TransportFail ==
    /\ pc = "awaiting"
    /\ Len(frames) < MaxFrames
    /\ frames' = Append(frames, TransportError)
    /\ buf' = buf \o Fill(0, MaxBufferSize)
    /\ result' = Err("Pcsc", 0)
    /\ decoded' = Err("Pcsc", 0)
    /\ pc' = "returned"
    /\ UNCHANGED <<op, args, mid, sent, response, yielded, ended, tick, wire, last>>

\* the caller pulls the next item from the iterator of calculate_all
Pull ==
    /\ pc = "iterating"
    /\ LET p == PullItem(response, args.truncate) IN
        /\ response' = p.rest
        /\ ended' = (ended \/ p.item.kind = "None")
        /\ yielded' = IF p.item.kind # "None" /\ Len(yielded) < MaxPulls
                      THEN Append(yielded, p.item) ELSE yielded
        /\ last' = [fn |-> "pull", before |-> response, tags |-> {},
                    out |-> p.item, after |-> p.rest]
    /\ tick' = ~tick
    /\ UNCHANGED <<pc, op, args, buf, mid, sent, frames, result, decoded, wire>>

\* the caller is done with the result and keeps its buffer for the next call
Return ==
    /\ pc \in {"returned", "iterating"}
    /\ pc' = "idle"
    /\ op' = "none"
    /\ args' = [truncate |-> FALSE, name |-> <<>>, challenge |-> <<>>]
    /\ mid' = 0
    /\ sent' = <<>>
    /\ frames' = <<>>
    /\ result' = None
    /\ response' = <<>>
    /\ decoded' = None
    /\ yielded' = <<>>
    /\ ended' = FALSE
    /\ tick' = FALSE
    /\ last' = NoCall
    /\ UNCHANGED <<buf, wire>>

Next ==
    \/ Select
    \/ Calculate
    \/ CalculateAll
    \/ TransportReply
    \/ TransportFail
    \/ Pull
    \/ Return

Spec == Init /\ [][Next]_vars

--------------------------------------------------------------------------
(* The status word of one frame, over all 65536 codes: a CALCULATE ALL     *)
(* exchange whose first reply is any two bytes; wire holds the two bytes.  *)

InitStatus ==
    /\ pc = "awaiting"
    /\ op = "calculate_all"
    /\ args = [truncate |-> FALSE, name |-> <<>>, challenge |-> <<>>]
    /\ buf = LcFixup(CalculateAllCommand(FALSE, <<>>))
    /\ mid = Len(CalculateAllCommand(FALSE, <<>>))
    /\ sent = <<LcFixup(CalculateAllCommand(FALSE, <<>>))>>
    /\ frames = <<>>
    /\ result = None
    /\ response = <<>>
    /\ decoded = None
    /\ yielded = <<>>
    /\ ended = FALSE
    /\ tick = FALSE
    /\ wire \in {<<b1, b2>> : b1 \in Byte, b2 \in Byte}
    /\ last = NoCall

\* the device answers the first call with the two bytes it holds
StatusReply == frames = <<>> /\ Reply(wire)

NextStatus == StatusReply

SpecStatus == InitStatus /\ [][NextStatus]_vars

--------------------------------------------------------------------------
(* Frames as the properties speak of them. *)

\* a reply that holds a status word
HasStatus(f) == f # TransportError /\ Len(f) >= 2

\* the status word of a frame whose last two wire bytes are (b1, b2)
FrameCode(f) == f[Len(f) - 1] * 256 + f[Len(f)]

FramePayload(f) == SubSeq(f, 1, Len(f) - 2)

IsMore(f) == HasStatus(f) /\ f[Len(f) - 1] = 97

IsSuccess(f) == HasStatus(f) /\ f[Len(f) - 1] = 144 /\ f[Len(f)] = 0

\* N >= 1 frames, the first N-1 with 0x61xx and the last with 0x9000
ChainedExchange ==
    /\ frames # <<>>
    /\ \A i \in 1..(Len(frames) - 1) : IsMore(frames[i])
    /\ IsSuccess(frames[Len(frames)])

\* the command the operation assembled, as transmit first sees and sends it
AssembledCommand ==
    LcFixup(IF op = "select" THEN SelectCommand
            ELSE IF op = "calculate"
            THEN CalculateCommand(args.truncate, args.name, args.challenge)
            ELSE CalculateAllCommand(args.truncate, args.challenge))

\* C1: when the transport answers an exchange with N >= 1 frames, the first
\* N-1 ending in a status word 0x61xx and the last in 0x9000, transmit returns
\* Ok with the payloads of the N frames concatenated in frame order, the
\* status bytes and the command bytes left out.
C1_ChainedConcatenation ==
    ChainedExchange =>
        result = Ok(Flatten([i \in 1..Len(frames) |-> FramePayload(frames[i])]))

\* a three-frame exchange with a payload in each of the first two frames
C1_Witness ==
    /\ ChainedExchange
    /\ Len(frames) = 3
    /\ FramePayload(frames[1]) = <<TagName, 1, 65>>
    /\ FramePayload(frames[2]) = <<TagTruncated, 5, 6, 0, 0, 4, 210>>
    /\ result.kind = "Ok"

\* C2: the first command sent is the assembled command; after every reply
\* with a status word 0x61xx, whatever its payload length, the next command
\* sent is 00 A5 00 00; the assembled command is sent exactly once.
C2_CommandOrder ==
    pc # "idle" =>
        /\ sent # <<>>
        /\ sent[1] = AssembledCommand
        /\ \A i \in 1..Len(frames) :
               (IsMore(frames[i]) /\ i < Len(sent)) => sent[i + 1] = <<0, 165, 0, 0>>
        /\ \A i \in 2..Len(sent) : sent[i] # AssembledCommand

\* C3: when a frame ends in a status word that is neither 0x9000 nor 0x61xx,
\* or the transport call fails, that frame is the last of the exchange: no
\* further command is sent, transmit and the operation return that error and
\* no payload.
C3_FailFast ==
    \A i \in 1..Len(frames) :
        LET f == frames[i]
            failed == f = TransportError
            refused == HasStatus(f) /\ ~IsMore(f) /\ ~IsSuccess(f)
        IN  (failed \/ refused) =>
                /\ i = Len(frames)
                /\ Len(sent) = Len(frames)
                /\ pc = "returned"
                /\ result.kind = "Err"
                /\ result.val = <<>>
                /\ failed => result = Err("Pcsc", 0)
                /\ refused => result.err \in {"NoSpace", "NoSuchObject", "AuthRequired",
                                              "WrongSyntax", "GenericError", "UnknownCode"}
                /\ (refused /\ result.err = "UnknownCode") => result.arg = FrameCode(f)
                /\ (refused /\ FrameCode(f) = 106 * 256 + 132) => result = Err("NoSpace", 0)
                /\ decoded = result
                /\ response = <<>>
                /\ yielded = <<>>

\* an exchange refused with 0x6a84 in its third frame, after two frames that
\* carried payload
C3_Witness ==
    /\ Len(frames) = 3
    /\ IsMore(frames[1]) /\ FramePayload(frames[1]) # <<>>
    /\ IsMore(frames[2]) /\ FramePayload(frames[2]) # <<>>
    /\ frames[3] = <<TagHotp, 1, 6, 106, 132>>
    /\ result = Err("NoSpace", 0)

\* C4: the status word b1*256 + b2 of a frame ending in the wire bytes
\* (b1, b2) is mapped exactly: 0x9000 alone is success, 0x6100..0x61ff alone
\* ask for the next frame, five codes have their own error, and every other
\* code is UnknownCode carrying the code.
C4_StatusMapping ==
    (Len(frames) = 1 /\ HasStatus(frames[1]) /\ Len(frames[1]) = 2) =>
        LET b1 == frames[1][1]
            b2 == frames[1][2]
            continues == pc = "awaiting" /\ result = None /\ Len(sent) = 2
        IN  /\ (b1 = 144 /\ b2 = 0) <=> result.kind = "Ok"
            /\ (b1 = 97) <=> continues
            /\ (b1 = 106 /\ b2 = 132) <=> result = Err("NoSpace", 0)
            /\ (b1 = 105 /\ b2 = 132) <=> result = Err("NoSuchObject", 0)
            /\ (b1 = 105 /\ b2 = 130) <=> result = Err("AuthRequired", 0)
            /\ (b1 = 106 /\ b2 = 128) <=> result = Err("WrongSyntax", 0)
            /\ (b1 = 101 /\ b2 = 129) <=> result = Err("GenericError", 0)
            /\ (/\ ~(b1 = 144 /\ b2 = 0)
                /\ b1 # 97
                /\ <<b1, b2>> \notin {<<106, 132>>, <<105, 132>>, <<105, 130>>,
                                      <<106, 128>>, <<101, 129>>})
               <=> result = Err("UnknownCode", b1 * 256 + b2)

\* the wire bytes 00 90, success with its bytes swapped, are an unknown code
C4_Witness ==
    /\ frames = << <<0, 144>> >>
    /\ result = Err("UnknownCode", 144)

--------------------------------------------------------------------------
(* The TLV codec on its own: push of any tag and value, then pop of what   *)
(* was written, or of raw bytes, against an expected tag set.              *)

\* tags handed to push: three protocol tags and the two extreme bytes
TlvTags == {TagName, TagChallenge, TagTruncated, 0, 255}

\* bytes of the short values: a zero, a small number, a byte that is a tag
TlvBytes == {0, 2, TagName}

\* lengths at the edge of the one-byte length field
LongLens == {255, 256}

TlvValues == SeqsUpTo(TlvBytes, MaxLen) \cup {Fill(7, n) : n \in LongLens}

\* the bytes after the entry (all of the bytes, when nothing is pushed)
TlvTails ==
    {<<>>, <<0>>, <<TagName>>, <<TagName, 0>>, <<TagName, 1>>, <<TagName, 1, 65>>,
     <<TagName, 2, 65>>}

\* the tag sets the operations hand to pop, and two more
ExpectedSets ==
    {{TagVersion}, {TagName}, {TagChallenge}, {TagAlgorithm}, {TagTruncated},
     {TagResponse}, {TagTruncated, TagHotp, TagTouch}, {TagResponse, TagHotp, TagTouch},
     {0}, {255, TagName}}

InitTlv ==
    /\ pc = "tlv"
    /\ op = "tlv"
    /\ args \in [tag : TlvTags, value : TlvValues, tags : ExpectedSets]
    /\ buf = <<>>
    /\ mid = 0
    /\ sent = <<>>
    /\ frames = <<>>
    /\ result = None
    /\ response = <<>>
    /\ decoded = None
    /\ yielded = <<>>
    /\ ended = FALSE
    /\ tick = FALSE
    /\ wire \in TlvTails
    /\ last = NoCall

\* push(buf, tag, value) on an empty buffer
TlvPush ==
    /\ pc = "tlv"
    /\ buf' = Push(buf, args.tag, args.value)
    /\ pc' = "pushed"
    /\ UNCHANGED <<op, args, mid, sent, frames, result, response, decoded, yielded,
                   ended, tick, wire, last>>

\* a cursor is put on the bytes written, followed by the bytes of the tail
TlvRead ==
    /\ pc \in {"tlv", "pushed"}
    /\ response' = buf \o wire
    /\ pc' = "reading"
    /\ UNCHANGED <<op, args, buf, mid, sent, frames, result, decoded, yielded,
                   ended, tick, wire, last>>

\* pop(&mut cursor, tags)
TlvPop ==
    /\ pc = "reading"
    /\ LET p == Pop(response, args.tags) IN
        /\ last' = [fn |-> "pop", before |-> response, tags |-> args.tags,
                    out |-> p.res, after |-> p.rest]
        /\ response' = p.rest
    /\ pc' = "popped"
    /\ UNCHANGED <<op, args, buf, mid, sent, frames, result, decoded, yielded,
                   ended, tick, wire>>

NextTlv == TlvPush \/ TlvRead \/ TlvPop

SpecTlv == InitTlv /\ [][NextTlv]_vars

\* C5: for every tag and every value of 0..255 bytes, pop of the bytes that
\* push(tag, value) wrote, with the tag in the expected set, returns
\* Ok((tag, value)) and leaves the cursor at the bytes after the entry.
C5_TlvRoundTrip ==
    (/\ pc = "popped"
     /\ buf # <<>>
     /\ Len(args.value) <= 255
     /\ args.tag \in args.tags)
    => /\ last.before = buf \o wire
       /\ last.out = Ok([tag |-> args.tag, data |-> args.value])
       /\ last.after = wire
       /\ response = wire

\* a value of 255 bytes, pushed and popped with bytes after it
C5_Witness ==
    /\ pc = "popped"
    /\ buf # <<>>
    /\ Len(args.value) = 255
    /\ args.tag \in args.tags
    /\ wire = <<TagName, 1, 65>>
    /\ last.out.kind = "Ok"

\* C6: on a non-empty buffer whose first byte is not in the expected set,
\* pop returns UnexpectedValue with that byte and leaves the cursor where it
\* was.
C6_UnexpectedTag ==
    (/\ pc = "popped"
     /\ last.before # <<>>
     /\ last.before[1] \notin last.tags)
    => /\ last.out = Err("UnexpectedValue", last.before[1])
       /\ last.after = last.before
       /\ response = last.before

\* a whole name entry met where a version is expected
C6_Witness ==
    /\ pc = "popped"
    /\ last.before = <<TagName, 1, 65>>
    /\ last.tags = {TagVersion}
    /\ last.out.kind = "Err"

--------------------------------------------------------------------------
(* The decoders on their own: a payload the device built from TLV entries  *)
(* and raw bytes is handed to pop, to Response::try_from, to the decoding   *)
(* of calculate, or to the iterator of calculate_all.                       *)

\* what the device puts in a payload: a TLV entry or raw bytes
Tlv(tag, value) == [tlv |-> TRUE, tag |-> tag, value |-> value]

Raw(bytes) == [tlv |-> FALSE, tag |-> 0, value |-> bytes]

\* the bytes of one item on the wire; a TLV value here is shorter than 256
EncodeItem(it) == IF it.tlv THEN <<it.tag, Len(it.value)>> \o it.value ELSE it.value

EncodeItems(items) == Flatten([i \in 1..Len(items) |-> EncodeItem(items[i])])

\* account names on the device: ASCII, a byte that is no text, a two-byte letter
DeviceNames == {<<65>>, <<255>>, <<195, 169>>}

\* digits 6 and the response 1234
DeviceResponse == <<6, 0, 0, 4, 210>>

\* the second TLV of an entry: the two response tags, HOTP, touch, and three
\* that a pull must refuse: an empty response, a short one, a foreign tag
DevicePayloads ==
    {Tlv(TagTruncated, DeviceResponse), Tlv(TagResponse, DeviceResponse),
     Tlv(TagHotp, <<6>>), Tlv(TagTouch, <<6>>),
     Tlv(TagTruncated, <<>>), Tlv(TagTruncated, <<6, 0>>), Tlv(TagChallenge, <<>>)}

\* a piece of a payload: a whole entry, half an entry, or bytes cut short
Pieces ==
    {<<Tlv(TagName, n), p>> : n \in DeviceNames, p \in DevicePayloads}
    \cup {<<Tlv(TagName, <<>>)>>, <<Tlv(TagTruncated, DeviceResponse)>>,
          <<Tlv(TagResponse, DeviceResponse)>>}
    \cup {<<Raw(<<TagName>>)>>, <<Raw(<<TagName, 3, 65>>)>>,
          <<Raw(<<TagTruncated, 5, 6>>)>>, <<Raw(<<0>>)>>}

Wires == SeqsUpTo(Pieces, MaxPieces)

\* the items of a payload, in order
Items(w) == Flatten(w)

\* the tag sets the operations hand to pop
CodeSets ==
    {{TagVersion}, {TagName}, {TagChallenge}, {TagAlgorithm}, {TagTruncated},
     {TagResponse}, {TagTruncated, TagHotp, TagTouch}, {TagResponse, TagHotp, TagTouch}}

InitDecode ==
    /\ pc = "payload"
    /\ op = "decode"
    /\ args \in [truncate : BOOLEAN, name : {<<>>}, challenge : {<<>>}]
    /\ wire \in Wires
    /\ buf = EncodeItems(Items(wire))
    /\ mid = 0
    /\ sent = <<>>
    /\ frames = <<>>
    /\ result = Ok(EncodeItems(Items(wire)))
    /\ response = EncodeItems(Items(wire))
    /\ decoded = None
    /\ yielded = <<>>
    /\ ended = FALSE
    /\ tick = FALSE
    /\ last = NoCall

\* pop(&mut response, tags) on the payload
PopStep ==
    \E tags \in CodeSets :
        /\ pc = "payload"
        /\ LET p == Pop(response, tags) IN
            /\ last' = [fn |-> "pop", before |-> response, tags |-> tags,
                        out |-> p.res, after |-> p.rest]
            /\ response' = p.rest
        /\ pc' = "popped"
        /\ UNCHANGED <<op, args, buf, mid, sent, frames, result, decoded, yielded,
                       ended, tick, wire>>

\* Response::try_from(value) with the payload as the value
TryFromStep ==
    /\ pc = "payload"
    /\ last' = [fn |-> "try_from", before |-> response, tags |-> {},
                out |-> ResponseTryFrom(response), after |-> response]
    /\ decoded' = ResponseTryFrom(response)
    /\ pc' = "converted"
    /\ UNCHANGED <<op, args, buf, mid, sent, frames, result, response, yielded,
                   ended, tick, wire>>

\* calculate after transmit returned the payload
CalculateStep ==
    /\ pc = "payload"
    /\ last' = [fn |-> "calculate", before |-> response, tags |-> {},
                out |-> CalculateDecode(response, args.truncate), after |-> <<>>]
    /\ decoded' = CalculateDecode(response, args.truncate)
    /\ response' = <<>>
    /\ pc' = "returned"
    /\ UNCHANGED <<op, args, buf, mid, sent, frames, result, yielded, ended, tick, wire>>

\* calculate_all after transmit returned the payload: Ok(iterator)
BulkStart ==
    /\ pc = "payload"
    /\ decoded' = Ok(<<>>)
    /\ pc' = "iterating"
    /\ UNCHANGED <<op, args, buf, mid, sent, frames, result, response, yielded,
                   ended, tick, wire, last>>

NextDecode ==
    \/ PopStep
    \/ TryFromStep
    \/ CalculateStep
    \/ BulkStart
    \/ Pull

SpecDecode == InitDecode /\ [][NextDecode]_vars

\* the caller goes on pulling
FairSpecDecode == SpecDecode /\ WF_vars(Pull)

--------------------------------------------------------------------------
(* The decoders as the properties speak of them. *)

\* pop of an entry from b needs more bytes than b holds: no tag byte, no
\* length byte, or fewer value bytes than the length byte declares
NeedsMore(b, tags) ==
    \/ b = <<>>
    \/ /\ b[1] \in tags
       /\ \/ Len(b) < 2
          \/ Len(b) < 2 + b[2]

\* b starts with a whole entry whose tag is in tags
StartsWithEntry(b, tags) == b # <<>> /\ b[1] \in tags /\ ~NeedsMore(b, tags)

\* the value of the entry b starts with, and the bytes after that entry
EntryValue(b) == SubSeq(b, 3, 2 + b[2])

AfterEntry(b) == SubSeq(b, 3 + b[2], Len(b))

\* the payload tags a pull accepts
PayloadTags(truncate) == {IF truncate THEN 118 ELSE 117, 119, 124}

\* one pull on the cursor b runs out of bytes: in the name entry, in the
\* payload entry, or at the digits byte of a response
PullNeedsMore(b, truncate) ==
    \/ NeedsMore(b, {113})
    \/ /\ StartsWithEntry(b, {113})
       /\ \/ NeedsMore(AfterEntry(b), PayloadTags(truncate))
          \/ /\ StartsWithEntry(AfterEntry(b), {117, 118} \cap PayloadTags(truncate))
             /\ EntryValue(AfterEntry(b)) = <<>>

\* calculate's decoding of the payload b runs out of bytes: in the response
\* entry, at its digits byte or in its four response bytes
CalculateNeedsMore(b, truncate) ==
    \/ NeedsMore(b, {IF truncate THEN 118 ELSE 117})
    \/ /\ StartsWithEntry(b, {IF truncate THEN 118 ELSE 117})
       /\ Len(EntryValue(b)) < 5

\* C7: a decode step that needs more bytes than remain (pop of an entry, the
\* digits byte, the four response bytes; on an empty buffer, on a lone tag
\* byte, on a length byte that declares more than follows) returns
\* InsufficientData, and no decode step indexes outside its buffer.
C7_TruncatedBufferSafety ==
    /\ last.out.kind # "Panic"
    /\ decoded.kind # "Panic"
    /\ \A i \in 1..Len(yielded) : yielded[i].kind # "Panic"
    /\ (last.fn = "pop" /\ NeedsMore(last.before, last.tags))
           => (last.out = Err("InsufficientData", 0) /\ last.after = last.before)
    /\ (last.fn = "try_from" /\ Len(last.before) < 5)
           => last.out = Err("InsufficientData", 0)
    /\ (last.fn = "calculate" /\ CalculateNeedsMore(last.before, args.truncate))
           => last.out = Err("InsufficientData", 0)
    /\ (last.fn = "pull" /\ last.before # <<>> /\ PullNeedsMore(last.before, args.truncate))
           => last.out = Err("InsufficientData", 0)

\* a pull on a name entry followed by a response entry cut short after its
\* first value byte
C7_Witness ==
    /\ last.fn = "pull"
    /\ args.truncate
    /\ last.before = <<113, 0, 118, 5, 6>>
    /\ last.out = Err("InsufficientData", 0)

\* the items of the payload are k whole entries: a name and a payload with an
\* accepted tag, a response holding the digits byte and four bytes
WellFormedEntries(items, truncate) ==
    /\ Len(items) % 2 = 0
    /\ \A i \in 1..Len(items) :
           /\ items[i].tlv
           /\ (i % 2 = 1) => items[i].tag = 113
           /\ (i % 2 = 0) => items[i].tag \in PayloadTags(truncate)
           /\ (i % 2 = 0 /\ items[i].tag \in {117, 118}) => Len(items[i].value) = 5

\* the variant a payload entry stands for
VariantOf(it) ==
    IF it.tag = 119 THEN [variant |-> "Hotp", digits |-> 0, response |-> <<>>]
    ELSE IF it.tag = 124 THEN [variant |-> "Touch", digits |-> 0, response |-> <<>>]
    ELSE [variant |-> "Response", digits |-> it.value[1], response |-> Tail(it.value)]

\* the entries a payload of whole entries stands for, in buffer order
ExpectedEntries(items) ==
    [k \in 1..(Len(items) \div 2) |->
        Ok([name |-> items[2 * k - 1].value, inner |-> VariantOf(items[2 * k])])]

\* C8: a CALCULATE ALL payload of exactly k >= 0 well-formed (name, payload)
\* entries yields the k entries as Ok items in buffer order, each with the
\* name and the variant of its pair, and then the end of the sequence; an
\* empty payload yields no entry.
C8_BulkDecodeWellFormed ==
    (pc = "iterating" /\ WellFormedEntries(Items(wire), args.truncate)) =>
        LET items == Items(wire)
            want == ExpectedEntries(items)
            j == Len(yielded)
        IN  /\ j <= Len(want)
            /\ yielded = SubSeq(want, 1, j)
            /\ response = EncodeItems(SubSeq(items, 2 * j + 1, Len(items)))
            /\ ended => yielded = want
            /\ (last.fn = "pull" /\ last.before = <<>>) => (ended /\ last.out.kind = "None")
            /\ (last.fn = "pull" /\ last.before # <<>>) => (last.out = yielded[j] /\ ~ended)

\* two entries, a response and a touch marker, yielded and then the end
C8_Witness ==
    /\ pc = "iterating"
    /\ WellFormedEntries(Items(wire), args.truncate)
    /\ Len(yielded) = 2
    /\ yielded[1] = Ok([name |-> <<65>>,
                        inner |-> [variant |-> "Response", digits |-> 6,
                                   response |-> <<0, 0, 4, 210>>]])
    /\ yielded[2].val.inner.variant = "Touch"
    /\ ended

\* C9: for every response buffer the sequence of the bulk decoder is finite:
\* pulling again and again reaches the end of the sequence, whether or not a
\* pull returned an error.
C9_SequenceEnds == (pc = "iterating") ~> ended

\* the continuation bytes 0x80..0xbf of UTF-8
Utf8Cont(b) == b >= 128 /\ b <= 191

\* std::str::from_utf8(s) is Ok
RECURSIVE ValidUtf8(_)
ValidUtf8(s) ==
    IF s = <<>> THEN TRUE
    ELSE IF s[1] < 128 THEN ValidUtf8(SubSeq(s, 2, Len(s)))
    ELSE IF s[1] >= 194 /\ s[1] <= 223
    THEN Len(s) >= 2 /\ Utf8Cont(s[2]) /\ ValidUtf8(SubSeq(s, 3, Len(s)))
    ELSE IF s[1] >= 224 /\ s[1] <= 239
    THEN /\ Len(s) >= 3
         /\ Utf8Cont(s[2])
         /\ s[1] = 224 => s[2] >= 160
         /\ s[1] = 237 => s[2] <= 159
         /\ Utf8Cont(s[3])
         /\ ValidUtf8(SubSeq(s, 4, Len(s)))
    ELSE IF s[1] >= 240 /\ s[1] <= 244
    THEN /\ Len(s) >= 4
         /\ Utf8Cont(s[2])
         /\ s[1] = 240 => s[2] >= 144
         /\ s[1] = 244 => s[2] <= 143
         /\ Utf8Cont(s[3])
         /\ Utf8Cont(s[4])
         /\ ValidUtf8(SubSeq(s, 5, Len(s)))
    ELSE FALSE

\* C10: a pull whose name entry holds bytes that are not valid UTF-8 yields
\* Err with the text-decoding failure and not an Ok entry; the items yielded
\* by earlier pulls stay as they were.
C10_NameIsText ==
    (/\ last.fn = "pull"
     /\ StartsWithEntry(last.before, {113})
     /\ ~ValidUtf8(EntryValue(last.before)))
    => /\ last.out.kind # "Ok"
       /\ \A i \in 1..Len(yielded) :
              yielded[i].kind = "Ok" => ValidUtf8(yielded[i].val.name)
       /\ LET p == AfterEntry(last.before) IN
              (/\ StartsWithEntry(p, PayloadTags(args.truncate))
               /\ p[1] \in {117, 118} => Len(EntryValue(p)) = 5)
              => (last.out.kind = "Err" /\ last.out.err = "Utf8")

--------------------------------------------------------------------------
(* The digit string of a response: impl Display for calculate::Response,   *)
(* and the same expression in the examples.  A u32 is kept as two 16-bit    *)
(* halves, so that 32-bit wrap-around is computed and not assumed away.     *)

\* u32::from_be_bytes of four bytes, as two halves
U32FromBe(s) == [hi |-> s[1] * 256 + s[2], lo |-> s[3] * 256 + s[4]]

\* x * 10 in 32 bits, and whether the product left the 32 bits
MulTen(x) ==
    LET l == x.lo * 10
        h == (x.hi * 10) + (l \div 65536)
    IN  [hi |-> h % 65536, lo |-> l % 65536, over |-> h >= 65536]

\* acc * 10^k in 32 bits; once the wrapped product is zero it stays zero
RECURSIVE TimesPow10(_, _)
TimesPow10(acc, k) ==
    IF k = 0 \/ (acc.hi = 0 /\ acc.lo = 0) THEN acc
    ELSE TimesPow10([hi |-> MulTen(acc).hi, lo |-> MulTen(acc).lo,
                     over |-> acc.over \/ MulTen(acc).over], k - 1)

\* 10_u32.pow(d): the wrapped value, and whether a multiplication overflowed
Pow10(d) == TimesPow10([hi |-> 0, lo |-> 1, over |-> FALSE], d)

\* a u32 as t * 2^31 + r
Top31(x) == x.hi \div 32768

Low31(x) == (x.hi % 32768) * 65536 + x.lo

\* (a + b) % m for a, b < m, without leaving 31 bits
AddMod(a, b, m) == IF a >= m - b THEN a - (m - b) ELSE a + b

\* x % m for m # 0, as t * 2^31 + r
RemU32(x, m) ==
    IF Top31(m) = 1
    THEN IF Top31(x) = 0 THEN [t |-> 0, r |-> Low31(x)]
         ELSE IF Low31(x) >= Low31(m) THEN [t |-> 0, r |-> Low31(x) - Low31(m)]
         ELSE [t |-> 1, r |-> Low31(x)]
    ELSE IF Top31(x) = 0 THEN [t |-> 0, r |-> Low31(x) % Low31(m)]
         ELSE [t |-> 0,
               r |-> AddMod(Low31(x) % Low31(m),
                            AddMod(2147483647 % Low31(m), 1 % Low31(m), Low31(m)),
                            Low31(m))]

\* the decimal digits of n, most significant first
RECURSIVE Dec(_)
Dec(n) == IF n < 10 THEN <<n>> ELSE Append(Dec(n \div 10), n % 10)

\* the decimal digits of t * 2^31 + r
DecBig(v) ==
    IF v.t = 0 THEN Dec(v.r)
    ELSE Append(Dec(214748364 + (v.r \div 10) + ((8 + (v.r % 10)) \div 10)), (8 + (v.r % 10)) % 10)

\* {:0w$}: zeros on the left up to the width w, never fewer characters than
\* the number has
PadZero(s, w) == IF Len(s) >= w THEN s ELSE Fill(0, w - Len(s)) \o s

\* fmt: response % 10_u32.pow(digits), written with {:01$}.  checked says
\* whether the build checks arithmetic overflow (it panics) or wraps; the
\* remainder by zero panics in every build
FormatOtp(bytes, digits, checked) ==
    LET m == Pow10(digits) IN
    IF m.over /\ checked THEN Panic
    ELSE IF m.hi = 0 /\ m.lo = 0 THEN Panic
    ELSE Ok(PadZero(DecBig(RemU32(U32FromBe(bytes), m)), digits))

\* the four response bytes the device may send: 0, 1234, 123456789, 2^31, 2^32 - 1
FormatResponses ==
    {<<0, 0, 0, 0>>, <<0, 0, 4, 210>>, <<7, 91, 205, 21>>, <<128, 0, 0, 0>>,
     <<255, 255, 255, 255>>}

InitFormat ==
    /\ pc = "format"
    /\ op = "format"
    /\ args \in [digits : Byte, response : FormatResponses, checked : BOOLEAN]
    /\ buf = <<>>
    /\ mid = 0
    /\ sent = <<>>
    /\ frames = <<>>
    /\ result = None
    /\ response = <<>>
    /\ decoded = None
    /\ yielded = <<>>
    /\ ended = FALSE
    /\ tick = FALSE
    /\ wire = <<>>
    /\ last = NoCall

\* the caller prints the response
Format ==
    /\ pc = "format"
    /\ decoded' = FormatOtp(args.response, args.digits, args.checked)
    /\ pc' = "formatted"
    /\ UNCHANGED <<op, args, buf, mid, sent, frames, result, response, yielded,
                   ended, tick, wire, last>>

NextFormat == Format

SpecFormat == InitFormat /\ [][NextFormat]_vars

\* the last w elements of s
LastOf(s, w) == SubSeq(s, Len(s) - w + 1, Len(s))

\* the decimal digits of the 32-bit number in four big-endian bytes
DecOfBytes(b) ==
    DecBig([t |-> b[1] \div 128,
            r |-> (((b[1] % 128) * 256 + b[2]) * 256 + b[3]) * 256 + b[4]])

\* C11: for every 32-bit response and every digits byte the formatted OTP is
\* the decimal representation of response mod 10^digits, zero-padded on the
\* left to exactly `digits` characters, and computing 10^digits neither
\* overflows nor aborts.
C11_DigitFormatting ==
    pc = "formatted" =>
        /\ decoded.kind = "Ok"
        /\ ~Pow10(args.digits).over
        /\ Len(decoded.val) = args.digits
        /\ decoded.val = LastOf(PadZero(DecOfBytes(args.response), args.digits), args.digits)

--------------------------------------------------------------------------
(* The assembled command, for names and challenges of up to 255 bytes.     *)

\* account names by length, up to the 255 bytes one length byte can hold
BuildNames == {Fill(65, n) : n \in {0, 1, 2, 249, 250, 251, 252, 255}}

BuildChallenges == {Fill(1, n) : n \in {0, 1, 8, 253, 254, 255}}

\* the caller holds the arguments of its next call
InitBuild ==
    /\ pc = "idle"
    /\ op = "none"
    /\ args \in [truncate : BOOLEAN, name : BuildNames, challenge : BuildChallenges]
    /\ buf = <<>>
    /\ mid = 0
    /\ sent = <<>>
    /\ frames = <<>>
    /\ result = None
    /\ response = <<>>
    /\ decoded = None
    /\ yielded = <<>>
    /\ ended = FALSE
    /\ tick = FALSE
    /\ wire = <<>>
    /\ last = NoCall

BuildSelect ==
    Begin("select", [truncate |-> FALSE, name |-> <<>>, challenge |-> <<>>], SelectCommand)

BuildCalculate ==
    Begin("calculate", args, CalculateCommand(args.truncate, args.name, args.challenge))

BuildCalculateAll ==
    Begin("calculate_all", [args EXCEPT !.name = <<>>],
          CalculateAllCommand(args.truncate, args.challenge))

NextBuild ==
    \/ BuildSelect
    \/ BuildCalculate
    \/ BuildCalculateAll

SpecBuild == InitBuild /\ [][NextBuild]_vars

\* the first command of the exchange has just been handed to the transport
CommandSent == pc = "awaiting" /\ frames = <<>> /\ Len(sent) = 1

\* C12: in SELECT, CALCULATE and CALCULATE ALL, for names and challenges of
\* 0..255 bytes, the fifth byte of the transmitted command is the number of
\* body bytes after the five-byte header, capped at 255.
C12_CommandLengthByte ==
    CommandSent =>
        /\ Len(sent[1]) >= 5
        /\ sent[1][5] = IF Len(sent[1]) - 5 > 255 THEN 255 ELSE Len(sent[1]) - 5

\* a TLV entry as the protocol writes it
TlvEntry(tag, value) == <<tag, Len(value)>> \o value

\* C13: SELECT is 00 A4 04 00, the length byte and the application id;
\* CALCULATE is 00 A2 00 p2, the length byte, the name entry (0x71) and then
\* the challenge entry (0x74); CALCULATE ALL is 00 A4 00 p2, the length byte
\* and the challenge entry; p2 is 1 exactly when truncate is set; each entry
\* is its tag, one byte holding the length of the value, and the value.
C13_FrameLayout ==
    CommandSent =>
        /\ Len(sent[1]) >= 5
        /\ op = "select" =>
              /\ SubSeq(sent[1], 1, 4) = <<0, 164, 4, 0>>
              /\ SliceFrom(sent[1], 5) = <<160, 0, 0, 5, 39, 33, 1>>
        /\ op = "calculate" =>
              /\ SubSeq(sent[1], 1, 4) = <<0, 162, 0, IF args.truncate THEN 1 ELSE 0>>
              /\ SliceFrom(sent[1], 5)
                    = TlvEntry(113, args.name) \o TlvEntry(116, args.challenge)
        /\ op = "calculate_all" =>
              /\ SubSeq(sent[1], 1, 4) = <<0, 164, 0, IF args.truncate THEN 1 ELSE 0>>
              /\ SliceFrom(sent[1], 5) = TlvEntry(116, args.challenge)

\* a CALCULATE with truncate set, a name of 255 bytes and a challenge has
\* been sent
C13_Witness ==
    /\ CommandSent
    /\ op = "calculate"
    /\ args.truncate
    /\ Len(args.name) = 255
    /\ Len(args.challenge) = 8

--------------------------------------------------------------------------
(* The payload of SELECT and its decoding.                                *)

\* what the device may send where the version entry belongs: the entry, an
\* entry with another tag, an entry cut short
SelectVersions == {Tlv(TagVersion, <<5, 4, 3>>), Tlv(TagName, <<>>), Raw(<<TagVersion, 3, 5>>)}

SelectNames == {Tlv(TagName, <<1, 2, 3, 4, 5, 6, 7, 8>>), Tlv(TagChallenge, <<>>), Raw(<<TagName>>)}

SelectChallenges == {Tlv(TagChallenge, <<9, 9>>), Tlv(TagAlgorithm, <<1>>), Raw(<<TagChallenge, 5>>)}

\* algorithm values of one byte (listed and not), of no byte and of two bytes,
\* an entry with another tag and a lone tag byte
SelectAlgorithms ==
    {Tlv(TagAlgorithm, <<a>>) : a \in {0, 1, 2, 3, 4, 255}}
    \cup {Tlv(TagAlgorithm, <<>>), Tlv(TagAlgorithm, <<1, 2>>), Tlv(TagName, <<1>>),
          Raw(<<TagAlgorithm>>)}

SelectWires ==
    {<<v>> : v \in SelectVersions}
    \cup {<<v, n>> : v \in SelectVersions, n \in SelectNames}
    \cup {<<v, n, c>> : v \in SelectVersions, n \in SelectNames, c \in SelectChallenges}
    \cup {<<v, n, c, a>> : v \in SelectVersions, n \in SelectNames,
                           c \in SelectChallenges, a \in SelectAlgorithms}

\* transmit has returned the payload of SELECT
InitSelect ==
    /\ pc = "payload"
    /\ op = "select"
    /\ args = [truncate |-> FALSE, name |-> <<>>, challenge |-> <<>>]
    /\ wire \in SelectWires
    /\ buf = EncodeItems(wire)
    /\ mid = 0
    /\ sent = <<>>
    /\ frames = <<>>
    /\ result = Ok(EncodeItems(wire))
    /\ response = EncodeItems(wire)
    /\ decoded = None
    /\ yielded = <<>>
    /\ ended = FALSE
    /\ tick = FALSE
    /\ last = NoCall

\* select after transmit returned the payload
SelectStep ==
    /\ pc = "payload"
    /\ last' = [fn |-> "select", before |-> response, tags |-> {},
                out |-> SelectDecode(response), after |-> <<>>]
    /\ decoded' = SelectDecode(response)
    /\ response' = <<>>
    /\ pc' = "returned"
    /\ UNCHANGED <<op, args, buf, mid, sent, frames, result, yielded, ended, tick, wire>>

NextSelect == SelectStep

SpecSelect == InitSelect /\ [][NextSelect]_vars

\* b starts with a whole version entry and a whole name entry
SelectHead(b) == StartsWithEntry(b, {121}) /\ StartsWithEntry(AfterEntry(b), {113})

\* the bytes after the version and the name entry
SelectTail(b) == AfterEntry(AfterEntry(b))

\* t starts with a whole challenge entry and a whole algorithm entry
SelectOptional(t) == StartsWithEntry(t, {116}) /\ StartsWithEntry(AfterEntry(t), {123})

\* the algorithm a value stands for
AlgorithmName(v) ==
    IF v = <<1>> THEN "HmacSha1" ELSE IF v = <<2>> THEN "HmacSha256" ELSE "HmacSha512"

\* C14: the SELECT decoder reads the version entry (0x79) and then the name
\* entry (0x71); with no bytes left the optional part is absent; otherwise a
\* challenge entry (0x74) and an algorithm entry (0x7B) must follow, and the
\* result is Ok only when the algorithm value is the one byte 1, 2 or 3
\* (HMAC-SHA1, HMAC-SHA256, HMAC-SHA512); any other single byte and any
\* other length of the value give the unexpected-value failure.
C14_SelectDecoding ==
    last.fn = "select" =>
        LET b == last.before
            t == SelectTail(b)
            alg == EntryValue(AfterEntry(t))
        IN  /\ last.out.kind \in {"Ok", "Err"}
            /\ ~SelectHead(b) => last.out.kind = "Err"
            /\ (SelectHead(b) /\ t = <<>>) =>
                  last.out = Ok([version |-> EntryValue(b),
                                 name |-> EntryValue(AfterEntry(b)),
                                 inner |-> [present |-> FALSE, challenge |-> <<>>,
                                            algorithm |-> ""]])
            /\ (SelectHead(b) /\ t # <<>> /\ ~SelectOptional(t)) => last.out.kind = "Err"
            /\ (SelectHead(b) /\ t # <<>> /\ SelectOptional(t)) =>
                  IF alg \in {<<1>>, <<2>>, <<3>>}
                  THEN last.out = Ok([version |-> EntryValue(b),
                                      name |-> EntryValue(AfterEntry(b)),
                                      inner |-> [present |-> TRUE,
                                                 challenge |-> EntryValue(t),
                                                 algorithm |-> AlgorithmName(alg)]])
                  ELSE last.out.kind = "Err" /\ last.out.err = "UnexpectedValue"

\* a SELECT payload whose algorithm entry holds the one byte 4 has been refused
C14_Witness ==
    /\ last.fn = "select"
    /\ SelectHead(last.before)
    /\ SelectOptional(SelectTail(last.before))
    /\ EntryValue(AfterEntry(SelectTail(last.before))) = <<4>>
    /\ last.out = Err("UnexpectedValue", 4)

--------------------------------------------------------------------------
(* The response tag and the variants of a bulk entry.                     *)

\* the response tag the truncate flag does not select
OtherResponseTag(truncate) == IF truncate THEN 117 ELSE 118

\* C15: in CALCULATE and in the response variant of CALCULATE ALL the
\* accepted response tag is 0x76 when truncate is set and 0x75 otherwise; an
\* entry with the other response tag fails with UnexpectedValue carrying
\* that tag and never gives Ok.
C15_ResponseTagFollowsTruncate ==
    /\ (last.fn = "calculate" /\ last.before # <<>>
            /\ last.before[1] = OtherResponseTag(args.truncate))
          => last.out = Err("UnexpectedValue", OtherResponseTag(args.truncate))
    /\ (last.fn = "calculate" /\ last.out.kind = "Ok")
          => last.before[1] = (IF args.truncate THEN 118 ELSE 117)
    /\ (last.fn = "pull" /\ StartsWithEntry(last.before, {113})
            /\ AfterEntry(last.before) # <<>>
            /\ AfterEntry(last.before)[1] = OtherResponseTag(args.truncate))
          => last.out = Err("UnexpectedValue", OtherResponseTag(args.truncate))
    /\ (last.fn = "pull" /\ last.out.kind = "Ok"
            /\ last.out.val.inner.variant = "Response")
          => AfterEntry(last.before)[1] = (IF args.truncate THEN 118 ELSE 117)

\* without truncate, a pull met a name entry followed by a whole entry with
\* the tag 0x76 and refused it
C15_Witness ==
    /\ last.fn = "pull"
    /\ ~args.truncate
    /\ last.before = <<113, 1, 65, 118, 5, 6, 0, 0, 4, 210>>
    /\ last.out = Err("UnexpectedValue", 118)

--------------------------------------------------------------------------
(* The caller's buffer before the first call: wire keeps what it held.     *)

\* what the caller's buffer may hold when it is handed to an operation:
\* nothing, an old command with its payload, an old status word
CallerBuffers ==
    {<<>>, <<0, 164, 0, 0, 2, 116, 0, 113, 1, 65>>, <<97, 0>>}

InitReuse ==
    /\ pc = "idle"
    /\ op = "none"
    /\ args = [truncate |-> FALSE, name |-> <<>>, challenge |-> <<>>]
    /\ buf \in CallerBuffers
    /\ wire = buf
    /\ mid = 0
    /\ sent = <<>>
    /\ frames = <<>>
    /\ result = None
    /\ response = <<>>
    /\ decoded = None
    /\ yielded = <<>>
    /\ ended = FALSE
    /\ tick = FALSE
    /\ last = NoCall

SpecReuse == InitReuse /\ [][Next]_vars

\* the command an operation assembles from its arguments
CommandOf(o, a) ==
    IF o = "select" THEN SelectCommand
    ELSE IF o = "calculate" THEN CalculateCommand(a.truncate, a.name, a.challenge)
    ELSE CalculateAllCommand(a.truncate, a.challenge)

\* the commands sent and the value returned by transmit when it starts from
\* the buffer b holding nothing but the command and the transport answers
\* with the frames fs
RECURSIVE Exchange(_, _, _, _)
Exchange(b, m, fs, snt) ==
    IF fs = <<>> THEN [sent |-> snt, out |-> None]
    ELSE IF Head(fs) = TransportError THEN [sent |-> snt, out |-> Err("Pcsc", 0)]
    ELSE IF TransmitReply(b, m, Head(fs)).out.kind = "Continue"
    THEN Exchange(TransmitReply(b, m, Head(fs)).buf, m, Tail(fs),
                  Append(snt, NextCommand(TransmitReply(b, m, Head(fs)).buf, m)))
    ELSE [sent |-> snt, out |-> TransmitReply(b, m, Head(fs)).out]

\* the exchange of an operation on an empty buffer
FreshExchange(o, a, fs) ==
    Exchange(LcFixup(CommandOf(o, a)), Len(CommandOf(o, a)), fs, <<LcFixup(CommandOf(o, a))>>)

\* C16: SELECT, CALCULATE and CALCULATE ALL clear the caller's buffer before
\* they assemble the command: with the same arguments and the same replies
\* of the transport, the bytes sent and the result are the same whatever the
\* buffer held before the call (they are those of the call on an empty
\* buffer).
C16_BufferReuse ==
    op \in {"select", "calculate", "calculate_all"} =>
        /\ sent = FreshExchange(op, args, frames).sent
        /\ result = FreshExchange(op, args, frames).out
        /\ decoded = IF result.kind = "None" THEN None ELSE Finish(result)
        /\ pc = "iterating" => \E k \in 0..Len(result.val) : response = SliceFrom(result.val, k)

\* a CALCULATE on a buffer that held an old command has returned its
\* response after a chained exchange
C16_Witness ==
    /\ wire = <<0, 164, 0, 0, 2, 116, 0, 113, 1, 65>>
    /\ op = "calculate"
    /\ pc = "returned"
    /\ Len(frames) = 2
    /\ Len(sent) = 2
    /\ decoded.kind = "Ok"

\* C17: in a pull of the bulk decoder, after the name entry (0x71), a
\* payload entry with the tag 0x77 gives the HOTP variant, 0x7C the touch
\* variant and the response tag selected by truncate the response variant
\* with its digits byte; any other payload tag makes that pull return
\* UnexpectedValue carrying that tag, and the entries yielded before stay as
\* they were.
C17_VariantSelection ==
    [][(tick' # tick /\ StartsWithEntry(response, {113})
            /\ AfterEntry(response) # <<>>) =>
        LET p == AfterEntry(response)
            name == EntryValue(response)
            sel == IF args.truncate THEN 118 ELSE 117
        IN  /\ IsPrefix(yielded, yielded')
            /\ Len(yielded) < MaxPulls => yielded' = Append(yielded, last'.out)
            /\ StartsWithEntry(p, {119}) =>
                  last'.out = Ok([name |-> name,
                                  inner |-> [variant |-> "Hotp", digits |-> 0,
                                             response |-> <<>>]])
            /\ StartsWithEntry(p, {124}) =>
                  last'.out = Ok([name |-> name,
                                  inner |-> [variant |-> "Touch", digits |-> 0,
                                             response |-> <<>>]])
            /\ (StartsWithEntry(p, {sel}) /\ EntryValue(p) # <<>>) =>
                  /\ last'.out.kind = "Ok"
                  /\ last'.out.val.name = name
                  /\ last'.out.val.inner.variant = "Response"
                  /\ last'.out.val.inner.digits = EntryValue(p)[1]
            /\ p[1] \notin {119, 124, sel} =>
                  last'.out = Err("UnexpectedValue", p[1])
      ]_vars

\* a second pull met the payload tag 0x74 after an HOTP entry had been
\* yielded, and returned UnexpectedValue with that tag
C17_Witness ==
    /\ last.fn = "pull"
    /\ Len(yielded) = 2
    /\ yielded[1].kind = "Ok"
    /\ yielded[1].val.inner.variant = "Hotp"
    /\ last.before = <<113, 1, 65, 116, 0>>
    /\ yielded[2] = Err("UnexpectedValue", 116)

--------------------------------------------------------------------------
(* The loop of transmit: its calls, its end, replies without a status word. *)

\* the number of frames received so far that end in a status word 0x61xx
ContinuationsReceived == Cardinality({i \in 1..Len(frames) : IsMore(frames[i])})

\* C18: the loop of transmit makes one transport call per frame and goes on
\* only while the last status word is in 0x6100..0x61FF; once a frame ends
\* in any other status word, or the transport fails, transmit returns, Ok on
\* 0x9000 and Err otherwise; the number of transport calls is the number of
\* continuation status words received plus one.
C18_LoopTermination ==
    op \in {"select", "calculate", "calculate_all"} =>
        /\ Len(sent) = Len(frames) + (IF pc = "awaiting" THEN 1 ELSE 0)
        /\ \A i \in 1..(Len(frames) - 1) : IsMore(frames[i])
        /\ pc = "awaiting" =>
              /\ \A i \in 1..Len(frames) : IsMore(frames[i])
              /\ result = None
        /\ pc # "awaiting" =>
              /\ frames # <<>>
              /\ ~IsMore(frames[Len(frames)])
              /\ result.kind \in {"Ok", "Err"}
              /\ result.kind = "Ok" <=> IsSuccess(frames[Len(frames)])
        /\ Len(sent) = ContinuationsReceived + 1

\* C19: a reply of fewer than two bytes (none or one), as the first frame or
\* as a continuation frame, makes transmit return InsufficientData; the
\* status word is taken from the last two bytes of the current reply and
\* never from bytes of the assembled command or of the payload gathered so
\* far; transmit never panics.
C19_ShortReplies ==
    /\ result.kind # "Panic"
    /\ decoded.kind # "Panic"
    /\ \A i \in 1..Len(frames) :
           (frames[i] # TransportError /\ Len(frames[i]) < 2) =>
               /\ i = Len(frames)
               /\ pc = "returned"
               /\ Len(sent) = Len(frames)
               /\ result = Err("InsufficientData", 0)

\* C20: after any pull of the bulk decoder the remaining buffer is a suffix
\* of the remaining buffer before the pull; a pull that yields Ok shortens it
\* by the whole name entry and the whole payload entry; once a pull has
\* reported the end, every later pull reports the end.
C20_CursorMonotone ==
    [][tick' # tick =>
        /\ IsSuffix(response', response)
        /\ last'.out.kind = "Ok" =>
              /\ StartsWithEntry(response, {113})
              /\ AfterEntry(response) # <<>>
              /\ Len(AfterEntry(response)) >= 2
              /\ Len(response') < Len(response)
              /\ Len(response')
                    = Len(response) - (2 + response[2]) - (2 + AfterEntry(response)[2])
        /\ last'.out.kind = "None" => ended'
        /\ ended => (ended' /\ last'.out.kind = "None")
      ]_vars

\* one entry was yielded, the end was reported, and a later pull reported
\* the end again (three pulls or more)
C20_Witness ==
    /\ last.fn = "pull"
    /\ Len(yielded) = 1
    /\ yielded[1].kind = "Ok"
    /\ ended
    /\ tick
    /\ last.out.kind = "None"

\* C21: every entry the bulk decoder yields as Ok with the response variant
\* carries one digits byte and exactly four response bytes; a response entry
\* whose value is shorter than five bytes makes that pull return
\* InsufficientData and not an Ok entry with a shorter response.
C21_ResponseEntryShape ==
    /\ \A i \in 1..Len(yielded) :
           (yielded[i].kind = "Ok" /\ yielded[i].val.inner.variant = "Response") =>
               /\ yielded[i].val.inner.digits \in 0..255
               /\ Len(yielded[i].val.inner.response) = 4
    /\ (/\ last.fn = "pull"
        /\ StartsWithEntry(last.before, {113})
        /\ StartsWithEntry(AfterEntry(last.before), {IF args.truncate THEN 118 ELSE 117})
        /\ Len(EntryValue(AfterEntry(last.before))) < 5)
       => last.out = Err("InsufficientData", 0)

====
